---- MODULE Spec2Model ----
(***************************************************************************)
(* Vasicek and Ho-Lee short-rate models: the path simulators of models.py  *)
(* and the residual functions and calibration wrappers of calibration.py.  *)
(*                                                                         *)
(* Numbers.  A Python/numpy float is modelled as an exact rational         *)
(* <<n, d>> in lowest terms with d > 0, and the value nan as <<0, 0>>.     *)
(* Rounding of binary floating point is not modelled: every sum, product   *)
(* and quotient is exact.  int() truncates toward zero, np.sqrt of a       *)
(* negative number is nan, and a Python division by zero raises.           *)
(*                                                                         *)
(* The process-wide generator is a pair [seed, pos]: the seed selects a    *)
(* stream of standard-normal draws and pos is the number of draws consumed *)
(* from it.                                                                *)
(***************************************************************************)
EXTENDS Integers, Sequences, FiniteSets

VARIABLES vasicek, holee, rate_data, rng, ret, replayed

vars == <<vasicek, holee, rate_data, rng, ret, replayed>>

(***************************************************************************)
(* Bounds of the model.                                                    *)
(***************************************************************************)
\* n_paths ranges over 1..MaxPaths
MaxPaths == 2
\* simulate is explored from generator positions 0..MaxPos
MaxPos == 0
\* rate series have 0..MaxLen observations
MaxLen == 3

(***************************************************************************)
(* Exact rational arithmetic standing for float arithmetic.                *)
(***************************************************************************)
Abs(i) == IF i < 0 THEN -i ELSE i

RECURSIVE Gcd(_, _)
Gcd(i, j) == IF j = 0 THEN i ELSE Gcd(j, i % j)

NaN == <<0, 0>>

IsNaN(x) == x[2] = 0

\* the rational n/d (d # 0) in lowest terms with a positive denominator
Rat(n, d) ==
    LET g == Gcd(Abs(n), Abs(d))
        s == IF d < 0 THEN -1 ELSE 1
    IN  <<(s * n) \div g, (s * d) \div g>>

Zero == <<0, 1>>

\* sums and differences over the least common denominator, products and
\* quotients reduced crosswise first, so that intermediate integers stay small
RAdd(x, y) ==
    IF IsNaN(x) \/ IsNaN(y) THEN NaN
    ELSE LET g == Gcd(x[2], y[2])
         IN  Rat(x[1] * (y[2] \div g) + y[1] * (x[2] \div g), (x[2] \div g) * y[2])

RNeg(x) == IF IsNaN(x) THEN NaN ELSE <<-x[1], x[2]>>

RSub(x, y) == RAdd(x, RNeg(y))

RMul(x, y) ==
    IF IsNaN(x) \/ IsNaN(y) THEN NaN
    ELSE IF x[1] = 0 \/ y[1] = 0 THEN <<0, 1>>
    ELSE LET g1 == Gcd(Abs(x[1]), y[2])
             g2 == Gcd(Abs(y[1]), x[2])
         IN  <<(x[1] \div g1) * (y[1] \div g2), (x[2] \div g2) * (y[2] \div g1)>>

\* x / y for y # 0 (the callers raise on, or are not given, a zero divisor)
RDiv(x, y) ==
    IF IsNaN(x) \/ IsNaN(y) THEN NaN
    ELSE RMul(x, IF y[1] < 0 THEN <<-y[2], -y[1]>> ELSE <<y[2], y[1]>>)

\* x < y and x <= y on numbers; every comparison with nan is false
RLess(x, y) == ~IsNaN(x) /\ ~IsNaN(y) /\ x[1] * y[2] < y[1] * x[2]

RLeq(x, y) == ~IsNaN(x) /\ ~IsNaN(y) /\ x[1] * y[2] <= y[1] * x[2]

RAbs(x) == IF IsNaN(x) THEN NaN ELSE <<Abs(x[1]), x[2]>>

\* Python int(x) of a finite float: truncation toward zero
PyInt(x) == IF x[1] >= 0 THEN x[1] \div x[2] ELSE -((-x[1]) \div x[2])

\* the integer square root of a perfect square
ISqrt(n) == CHOOSE k \in 0..n : k * k = n

\* np.sqrt: nan (with a warning, no error) below zero; the time steps of the
\* model are squares of rationals, so the root is exact
NpSqrt(x) ==
    IF IsNaN(x) \/ x[1] < 0 THEN NaN ELSE <<ISqrt(x[1]), ISqrt(x[2])>>

(***************************************************************************)
(* The generator.                                                          *)
(***************************************************************************)
\* draw number i (from 0) of the stream that seed s selects: a stand-in for
\* the standard-normal stream, with values in {-1, 0, 1}
Normal(s, i) ==
    <<(((s + 1) * (i + 1) + (i \div 2) + s * (i \div 3)) % 3) - 1, 1>>

\* np.random.normal(size=(n_steps, n_paths)) from generator state g: the
\* array is filled row by row from the next n_steps * n_paths draws
np_random_normal(g, n_steps, n_paths) ==
    [t \in 1..n_steps |->
        [j \in 1..n_paths |-> Normal(g.seed, g.pos + (t - 1) * n_paths + (j - 1))]]

\* the generator after that call
np_random_advance(g, n_steps, n_paths) ==
    [seed |-> g.seed, pos |-> g.pos + n_steps * n_paths]

(***************************************************************************)
(* models.py                                                               *)
(***************************************************************************)
\* VasicekModel.__init__ / HoLeeModel.__init__: the object's fields
VasicekModel(a, b, sigma, r0) ==
    [a |-> a, b |-> b, sigma |-> sigma, r0 |-> r0, scheme |-> "euler"]

HoLeeModel(theta, sigma, r0) ==
    [theta |-> theta, sigma |-> sigma, r0 |-> r0, scheme |-> "euler"]

\* variant: the step count rounded up instead of truncated
n_steps_ceil(T, dt) ==
    PyInt(RDiv(T, dt)) + (IF RDiv(T, dt)[2] = 1 THEN 0 ELSE 1)

\* variant: math.floor(T / dt) instead of int(T / dt)
n_steps_floor(T, dt) == RDiv(T, dt)[1] \div RDiv(T, dt)[2]

\* n_steps = int(T / dt), for dt # 0
n_steps_of(T, dt) == PyInt(RDiv(T, dt))

\* variant: the assignment paths[0] = self.r0 left out
init_paths_zeros(r0, n_steps, n_paths) ==
    [i \in 1..(n_steps + 1) |-> [j \in 1..n_paths |-> Zero]]

\* variant: an engine that keeps the rates it ended on and starts the next
\* call of the same width from them
init_paths_resume(r0, n_steps, n_paths) ==
    [i \in 1..(n_steps + 1) |->
        [j \in 1..n_paths |->
            IF i > 1 THEN Zero
            ELSE IF Len(ret.paths) > 0 /\ Len(ret.paths[1]) = n_paths
            THEN ret.paths[Len(ret.paths)][j]
            ELSE r0]]

\* paths = np.zeros((n_steps + 1, n_paths)); paths[0] = self.r0
\* (row t of the array is element t + 1 of the sequence)
init_paths(r0, n_steps, n_paths) ==
    [i \in 1..(n_steps + 1) |->
        [j \in 1..n_paths |-> IF i = 1 THEN r0 ELSE Zero]]

\* dW = np.sqrt(dt) * np.random.normal(size=(n_steps, n_paths))
draw_dW(g, dt, n_steps, n_paths) ==
    LET z == np_random_normal(g, n_steps, n_paths)
    IN  [t \in 1..n_steps |-> [j \in 1..n_paths |-> RMul(NpSqrt(dt), z[t][j])]]

\* variant: the drift with its sign reversed, a * (paths[t] - b) * dt
vasicek_step_flipped(self, row, dWt, dt) ==
    [j \in DOMAIN row |->
        LET drift == RMul(RMul(self.a, RSub(row[j], self.b)), dt)
            diffusion == RMul(self.sigma, dWt[j])
        IN  RAdd(RAdd(row[j], drift), diffusion)]

\* variant: one increment, dW[t][0], shared by every path
vasicek_step_shared(self, row, dWt, dt) ==
    [j \in DOMAIN row |->
        LET drift == RMul(RMul(self.a, RSub(self.b, row[j])), dt)
            diffusion == RMul(self.sigma, dWt[1])
        IN  RAdd(RAdd(row[j], drift), diffusion)]

\* one pass of the Vasicek loop body on row vectors:
\* drift = a * (b - paths[t]) * dt; diffusion = sigma * dW[t];
\* the value assigned to paths[t + 1]
vasicek_step(self, row, dWt, dt) ==
    [j \in DOMAIN row |->
        LET drift == RMul(RMul(self.a, RSub(self.b, row[j])), dt)
            diffusion == RMul(self.sigma, dWt[j])
        IN  RAdd(RAdd(row[j], drift), diffusion)]

\* variant: drift = theta, the time step forgotten
holee_step_nodt(self, row, dWt, dt) ==
    [j \in DOMAIN row |->
        LET drift == self.theta
            diffusion == RMul(self.sigma, dWt[j])
        IN  RAdd(RAdd(row[j], drift), diffusion)]

\* one pass of the Ho-Lee loop body: drift = theta * dt
holee_step(self, row, dWt, dt) ==
    [j \in DOMAIN row |->
        LET drift == RMul(self.theta, dt)
            diffusion == RMul(self.sigma, dWt[j])
        IN  RAdd(RAdd(row[j], drift), diffusion)]

\* for t in range(n_steps): paths[t + 1] = step(paths[t], dW[t]);
\* st.writes lists the rows assigned so far, in order
RECURSIVE vasicek_loop(_, _, _, _, _, _)
vasicek_loop(self, dt, dW, n_steps, t, st) ==
    IF t >= n_steps THEN st
    ELSE vasicek_loop(self, dt, dW, n_steps, t + 1,
            [paths |-> [st.paths EXCEPT
                           ![t + 2] = vasicek_step(self, st.paths[t + 1], dW[t + 1], dt)],
             writes |-> Append(st.writes, t + 1)])

RECURSIVE holee_loop(_, _, _, _, _, _)
holee_loop(self, dt, dW, n_steps, t, st) ==
    IF t >= n_steps THEN st
    ELSE holee_loop(self, dt, dW, n_steps, t + 1,
            [paths |-> [st.paths EXCEPT
                           ![t + 2] = holee_step(self, st.paths[t + 1], dW[t + 1], dt)],
             writes |-> Append(st.writes, t + 1)])

\* the outcome of a call that raised before anything was drawn; self is the
\* object as the call leaves it
Raised(err, self, g) ==
    [status |-> err, n_steps |-> 0, paths |-> <<>>, dW |-> <<>>,
     writes |-> <<>>, normal_calls |-> 0, rng |-> g, self |-> self]

\* how far simulate gets before the stepping loop: T / dt raises
\* ZeroDivisionError for dt = 0, np.zeros raises ValueError for a negative
\* row count, and paths[0] = r0 raises IndexError on an array of no rows
simulate_entry(T, dt) ==
    IF dt = Zero THEN "ZeroDivisionError"
    ELSE IF n_steps_of(T, dt) + 1 < 0 THEN "ValueError"
    ELSE IF n_steps_of(T, dt) + 1 = 0 THEN "IndexError"
    ELSE "ok"

\* variant: the call stores the last rate of the first path in self.r0
simulate_return_keep(self, n_steps, n_paths, dW, st, g) ==
    [status |-> "ok", n_steps |-> n_steps, paths |-> st.paths, dW |-> dW,
     writes |-> st.writes, normal_calls |-> 1,
     rng |-> np_random_advance(g, n_steps, n_paths),
     self |-> [self EXCEPT !.r0 = st.paths[n_steps + 1][1]]]

\* return paths: what a completed call hands back, and the generator and
\* object as it leaves them
simulate_return(self, n_steps, n_paths, dW, st, g) ==
    [status |-> "ok", n_steps |-> n_steps, paths |-> st.paths, dW |-> dW,
     writes |-> st.writes, normal_calls |-> 1,
     rng |-> np_random_advance(g, n_steps, n_paths), self |-> self]

\* the body of VasicekModel.simulate from the draw of dW on
vasicek_run(self, dt, n_steps, n_paths, dW, g) ==
    simulate_return(self, n_steps, n_paths, dW,
        vasicek_loop(self, dt, dW, n_steps, 0,
            [paths |-> init_paths(self.r0, n_steps, n_paths), writes |-> <<0>>]),
        g)

\* the body of HoLeeModel.simulate from the draw of dW on
holee_run(self, dt, n_steps, n_paths, dW, g) ==
    simulate_return(self, n_steps, n_paths, dW,
        holee_loop(self, dt, dW, n_steps, 0,
            [paths |-> init_paths(self.r0, n_steps, n_paths), writes |-> <<0>>]),
        g)

\* VasicekModel.simulate(self, T, dt, n_paths) run from generator state g
VasicekModel_simulate(self, T, dt, n_paths, g) ==
    IF simulate_entry(T, dt) # "ok" THEN Raised(simulate_entry(T, dt), self, g)
    ELSE vasicek_run(self, dt, n_steps_of(T, dt), n_paths,
                     draw_dW(g, dt, n_steps_of(T, dt), n_paths), g)

\* HoLeeModel.simulate(self, T, dt, n_paths) run from generator state g
HoLeeModel_simulate(self, T, dt, n_paths, g) ==
    IF simulate_entry(T, dt) # "ok" THEN Raised(simulate_entry(T, dt), self, g)
    ELSE holee_run(self, dt, n_steps_of(T, dt), n_paths,
                   draw_dW(g, dt, n_steps_of(T, dt), n_paths), g)

(***************************************************************************)
(* calibration.py                                                          *)
(***************************************************************************)
\* the epsilon added to sigma in both residual functions
Epsilon == <<1, 1000000>>

\* r[:-1] and r[1:]
r_lag_of(r) == [i \in 1..(Len(r) - 1) |-> r[i]]

r_next_of(r) == [i \in 1..(Len(r) - 1) |-> r[i + 1]]

\* variant: the expected change taken at r_next instead of r_lag
vasicek_calibration_next(params, r, dt) ==
    LET a == params[1]
        b == params[2]
        sigma == params[3]
        r_lag == r_lag_of(r)
        r_next == r_next_of(r)
        expected_change == [i \in DOMAIN r_lag |-> RMul(RMul(a, RSub(b, r_next[i])), dt)]
    IN  [i \in DOMAIN r_lag |->
            RDiv(RSub(RSub(r_next[i], r_lag[i]), expected_change[i]),
                 RAdd(sigma, Epsilon))]

\* vasicek_calibration(params, r, dt), params = (a, b, sigma)
vasicek_calibration(params, r, dt) ==
    LET a == params[1]
        b == params[2]
        sigma == params[3]
        r_lag == r_lag_of(r)
        r_next == r_next_of(r)
        expected_change == [i \in DOMAIN r_lag |-> RMul(RMul(a, RSub(b, r_lag[i])), dt)]
    IN  [i \in DOMAIN r_lag |->
            RDiv(RSub(RSub(r_next[i], r_lag[i]), expected_change[i]),
                 RAdd(sigma, Epsilon))]

\* holee_calibration(params, r, dt), params = (theta, sigma)
holee_calibration(params, r, dt) ==
    LET theta == params[1]
        sigma == params[2]
        r_lag == r_lag_of(r)
        r_next == r_next_of(r)
        expected_change == RMul(theta, dt)
    IN  [i \in DOMAIN r_lag |->
            RDiv(RSub(RSub(r_next[i], r_lag[i]), expected_change),
                 RAdd(sigma, Epsilon))]

RECURSIVE np_sum(_)
np_sum(r) == IF Len(r) = 0 THEN Zero ELSE RAdd(r[1], np_sum(Tail(r)))

\* variant: np.sum in place of np.mean
np_mean_sum(r) == IF Len(r) = 0 THEN NaN ELSE np_sum(r)

\* np.mean: nan (with a warning, no error) for an empty series
np_mean(r) == IF Len(r) = 0 THEN NaN ELSE RDiv(np_sum(r), <<Len(r), 1>>)

\* the starting points of the two calibrations
vasicek_initial_params(rate_data_) == <<<<1, 10>>, np_mean(rate_data_), <<1, 100>>>>

holee_initial_params == <<<<1, 1000>>, <<1, 100>>>>

\* The outcomes of least_squares(fun, x0), given the residuals f0 = fun(x0)
\* and the vectors the solver may end at.  The solver rejects a start that is
\* not finite (nan lies within no bounds) and residuals that are not finite;
\* a start whose residuals are all zero has zero gradient, so the solver
\* stops before its first step and returns x0; from any other start it
\* returns some vector, with no convergence report.
least_squares(f0, x0, candidates) ==
    IF (\E k \in DOMAIN x0 : IsNaN(x0[k])) \/ (\E i \in DOMAIN f0 : IsNaN(f0[i]))
    THEN {[status |-> "ValueError", x |-> <<>>]}
    ELSE IF \A i \in DOMAIN f0 : f0[i] = Zero
    THEN {[status |-> "ok", x |-> x0]}
    ELSE {[status |-> "ok", x |-> x] : x \in candidates}

\* calibrate_vasicek(rate_data, dt): the possible outcomes
calibrate_vasicek(rate_data_, dt, candidates) ==
    LET initial_params == vasicek_initial_params(rate_data_)
    IN  {[status |-> o.status, x |-> o.x, x0 |-> initial_params,
          f0 |-> vasicek_calibration(initial_params, rate_data_, dt)] :
            o \in least_squares(vasicek_calibration(initial_params, rate_data_, dt),
                                initial_params, candidates)}

\* calibrate_holee(rate_data, dt): the possible outcomes
calibrate_holee(rate_data_, dt, candidates) ==
    LET initial_params == holee_initial_params
    IN  {[status |-> o.status, x |-> o.x, x0 |-> initial_params,
          f0 |-> holee_calibration(initial_params, rate_data_, dt)] :
            o \in least_squares(holee_calibration(initial_params, rate_data_, dt),
                                initial_params, candidates)}

(***************************************************************************)
(* The inputs explored.                                                    *)
(***************************************************************************)
\* horizons: negative, zero and positive, with quotients T / dt that are
\* not whole numbers on both sides of zero
TSet == {<<-1, 1>>, <<-1, 2>>, <<0, 1>>, <<5, 8>>, <<1, 1>>}

\* time steps (squares of rationals): negative, zero and positive
DtSet == {<<-1, 1>>, <<0, 1>>, <<1, 4>>, <<1, 1>>}

PathCounts == 1..MaxPaths

Seeds == {0, 1}

\* Vasicek objects: without noise for every speed a on both sides of b,
\* and with noise
VasicekModels ==
    {VasicekModel(a, <<1, 1>>, <<0, 1>>, r0) :
        a \in {<<-1, 1>>, <<1, 2>>, <<3, 2>>, <<3, 1>>},
        r0 \in {<<0, 1>>, <<2, 1>>}}
    \cup {VasicekModel(a, <<1, 1>>, <<1, 2>>, <<0, 1>>) : a \in {<<1, 2>>, <<3, 1>>}}

HoLeeModels ==
    {HoLeeModel(theta, <<0, 1>>, r0) :
        theta \in {<<-1, 1>>, <<1, 2>>},
        r0 \in {<<0, 1>>, <<2, 1>>}}
    \cup {HoLeeModel(theta, <<1, 2>>, <<2, 1>>) : theta \in {<<-1, 1>>, <<1, 2>>}}

RateValues == {<<1, 2>>, <<1, 1>>}

RateSeries == UNION {[1..n -> RateValues] : n \in 0..MaxLen}

\* time steps of the observed series
DtCal == {<<1, 4>>, <<1, 1>>}

\* candidate parameter vectors (a, b, sigma) and (theta, sigma)
VasicekParams ==
    {<<a, b, sigma>> :
        a \in {<<1, 10>>, <<1, 1>>},
        b \in {<<0, 1>>, <<1, 1>>},
        sigma \in {<<0, 1>>, <<1, 100>>}}

HoLeeParams ==
    {<<theta, sigma>> :
        theta \in {<<1, 1000>>, <<1, 1>>},
        sigma \in {<<0, 1>>, <<1, 100>>}}

DefaultVasicek == VasicekModel(<<1, 2>>, <<1, 1>>, <<1, 2>>, <<0, 1>>)

DefaultHoLee == HoLeeModel(<<1, 2>>, <<1, 2>>, <<0, 1>>)

DefaultSeries == <<<<1, 2>>, <<1, 1>>>>

(***************************************************************************)
(* The state machine: a caller that holds objects of the two classes and   *)
(* rate series and calls the public functions in any order.  vasicek and   *)
(* holee are the sets of live objects of each class, rate_data the set of  *)
(* series held (each of them empty or a singleton here).  ret records the  *)
(* last call: its arguments, for simulate the object and generator state   *)
(* it started from, and what it returned or raised.  replayed tells        *)
(* whether the last step was a simulate call that repeated the call before *)
(* it (same method, object, arguments and generator state) and, if so,     *)
(* whether the two outcomes were the same.                                 *)
(***************************************************************************)
NoCall ==
    [op |-> "none", self |-> <<>>, args |-> <<>>, rng_before |-> [seed |-> 0, pos |-> 0],
     status |-> "ok", n_steps |-> 0, paths |-> <<>>, dW |-> <<>>, writes |-> <<>>,
     normal_calls |-> 0, r |-> <<>>, x0 |-> <<>>, x |-> <<>>, residuals |-> <<>>]

SimCall(op, self, T, dt, n_paths, g, out) ==
    [NoCall EXCEPT !.op = op, !.self = self, !.args = <<T, dt, n_paths>>,
                   !.rng_before = g, !.status = out.status, !.n_steps = out.n_steps,
                   !.paths = out.paths, !.dW = out.dW, !.writes = out.writes,
                   !.normal_calls = out.normal_calls]

Replay(op, self, T, dt, n_paths, g, out) ==
    IF ret.op = op /\ ret.self = self /\ ret.args = <<T, dt, n_paths>>
       /\ ret.rng_before = g
    THEN IF out.status = ret.status /\ out.paths = ret.paths THEN "same" ELSE "differ"
    ELSE "no"

Init ==
    /\ \/ vasicek \in {{m} : m \in VasicekModels} /\ holee = {} /\ rate_data = {}
       \/ vasicek = {} /\ holee \in {{m} : m \in HoLeeModels} /\ rate_data = {}
       \/ vasicek = {} /\ holee = {} /\ rate_data \in {{r} : r \in RateSeries}
       \/ vasicek = {DefaultVasicek} /\ holee = {DefaultHoLee}
          /\ rate_data = {DefaultSeries}
    /\ rng \in [seed : Seeds, pos : {0}]
    /\ ret = NoCall
    /\ replayed = "no"

\* np.random.seed(s)
Seed(s) ==
    /\ rng' = [seed |-> s, pos |-> 0]
    /\ replayed' = "no"
    /\ UNCHANGED <<vasicek, holee, rate_data, ret>>

\* self.simulate(T, dt, n_paths) on a VasicekModel
CallVasicekSimulate(self, T, dt, n_paths) ==
    \E out \in {VasicekModel_simulate(self, T, dt, n_paths, rng)} :
        /\ rng.pos <= MaxPos
        /\ ret' = SimCall("VasicekModel.simulate", self, T, dt, n_paths, rng, out)
        /\ replayed' = Replay("VasicekModel.simulate", self, T, dt, n_paths, rng, out)
        /\ rng' = out.rng
        /\ vasicek' = (vasicek \ {self}) \cup {out.self}
        /\ UNCHANGED <<holee, rate_data>>

\* self.simulate(T, dt, n_paths) on a HoLeeModel
CallHoLeeSimulate(self, T, dt, n_paths) ==
    \E out \in {HoLeeModel_simulate(self, T, dt, n_paths, rng)} :
        /\ rng.pos <= MaxPos
        /\ ret' = SimCall("HoLeeModel.simulate", self, T, dt, n_paths, rng, out)
        /\ replayed' = Replay("HoLeeModel.simulate", self, T, dt, n_paths, rng, out)
        /\ rng' = out.rng
        /\ holee' = (holee \ {self}) \cup {out.self}
        /\ UNCHANGED <<vasicek, rate_data>>

\* vasicek_calibration(params, r, dt)
CallVasicekCalibration(params, r, dt) ==
    /\ ret' = [NoCall EXCEPT !.op = "vasicek_calibration", !.args = <<params, dt>>,
                             !.r = r,
                             !.residuals = vasicek_calibration(params, r, dt)]
    /\ replayed' = "no"
    /\ UNCHANGED <<vasicek, holee, rate_data, rng>>

\* holee_calibration(params, r, dt)
CallHoLeeCalibration(params, r, dt) ==
    /\ ret' = [NoCall EXCEPT !.op = "holee_calibration", !.args = <<params, dt>>,
                             !.r = r,
                             !.residuals = holee_calibration(params, r, dt)]
    /\ replayed' = "no"
    /\ UNCHANGED <<vasicek, holee, rate_data, rng>>

\* calibrate_vasicek(r, dt)
CallCalibrateVasicek(r, dt) ==
    \E o \in calibrate_vasicek(r, dt, VasicekParams) :
        /\ ret' = [NoCall EXCEPT !.op = "calibrate_vasicek", !.args = <<dt>>,
                                 !.r = r, !.status = o.status,
                                 !.x0 = o.x0, !.x = o.x, !.residuals = o.f0]
        /\ replayed' = "no"
        /\ UNCHANGED <<vasicek, holee, rate_data, rng>>

\* calibrate_holee(r, dt)
CallCalibrateHoLee(r, dt) ==
    \E o \in calibrate_holee(r, dt, HoLeeParams) :
        /\ ret' = [NoCall EXCEPT !.op = "calibrate_holee", !.args = <<dt>>,
                                 !.r = r, !.status = o.status,
                                 !.x0 = o.x0, !.x = o.x, !.residuals = o.f0]
        /\ replayed' = "no"
        /\ UNCHANGED <<vasicek, holee, rate_data, rng>>

Next ==
    \/ \E s \in Seeds : Seed(s)
    \/ \E self \in vasicek, T \in TSet, dt \in DtSet, n_paths \in PathCounts :
          CallVasicekSimulate(self, T, dt, n_paths)
    \/ \E self \in holee, T \in TSet, dt \in DtSet, n_paths \in PathCounts :
          CallHoLeeSimulate(self, T, dt, n_paths)
    \/ \E params \in VasicekParams, r \in rate_data, dt \in DtCal :
          CallVasicekCalibration(params, r, dt)
    \/ \E params \in HoLeeParams, r \in rate_data, dt \in DtCal :
          CallHoLeeCalibration(params, r, dt)
    \/ \E r \in rate_data, dt \in DtCal : CallCalibrateVasicek(r, dt)
    \/ \E r \in rate_data, dt \in DtCal : CallCalibrateHoLee(r, dt)

Spec == Init /\ [][Next]_vars

(***************************************************************************)
(* Properties.                                                             *)
(***************************************************************************)
SimOps == {"VasicekModel.simulate", "HoLeeModel.simulate"}

\* the last call was a simulate call; its arguments
IsSim == ret.op \in SimOps

ArgT == ret.args[1]

ArgDt == ret.args[2]

ArgPaths == ret.args[3]

Positive(x) == RLess(Zero, x)

\* the largest integer not above x, and x cut toward zero
Floor(x) == x[1] \div x[2]

Trunc(x) == IF x[1] >= 0 THEN Floor(x) ELSE -Floor(<<-x[1], x[2]>>)

IsWhole(x) == x[2] = 1

\* some increment of the last call is a nonzero number
SomeNoise == \E t \in DOMAIN ret.dW : \E j \in DOMAIN ret.dW[t] : ret.dW[t][j][1] # 0

\* C1: for positive T, dt and n_paths, simulate (of either class) returns a
\* matrix of exactly floor(T/dt) + 1 rows of n_paths columns each; and the
\* call of the unit tests, T = 1, dt = 1/252, n_paths = 5, gets 253 rows of 5.
C1_Shape ==
    /\ (IsSim /\ Positive(ArgT) /\ Positive(ArgDt) /\ ArgPaths > 0)
          => /\ ret.status = "ok"
             /\ Len(ret.paths) = Floor(RDiv(ArgT, ArgDt)) + 1
             /\ \A i \in DOMAIN ret.paths : Len(ret.paths[i]) = ArgPaths
    /\ simulate_entry(<<1, 1>>, <<1, 252>>) = "ok"
    /\ Len(init_paths(Zero, n_steps_of(<<1, 1>>, <<1, 252>>), 5)) = 253
    /\ Len(init_paths(Zero, n_steps_of(<<1, 1>>, <<1, 252>>), 5)[253]) = 5

\* C1 witness: calls of both classes with T/dt = 5/2, two paths, three rows
C1_Witness ==
    /\ IsSim /\ ret.status = "ok"
    /\ Positive(ArgT) /\ Positive(ArgDt) /\ ~IsWhole(RDiv(ArgT, ArgDt))
    /\ ArgPaths = 2 /\ Len(ret.paths) = 3

\* C2: in every matrix simulate returns, row 0 is r0 in every column, and
\* the stepping loop assigns no row 0: after the initial assignment the rows
\* written are all below row 0.
C2_RowZero ==
    (IsSim /\ ret.status = "ok")
        => /\ Len(ret.paths) >= 1
           /\ \A j \in 1..ArgPaths : ret.paths[1][j] = ret.self.r0
           /\ \A k \in 2..Len(ret.writes) : ret.writes[k] # 0

\* C2 witness: a noisy two-path run of several steps from a nonzero r0 whose
\* later rows have moved away from r0
C2_Witness ==
    /\ IsSim /\ ret.status = "ok" /\ ret.n_steps >= 2 /\ ArgPaths = 2
    /\ ret.self.r0 # Zero /\ ret.self.sigma # Zero /\ SomeNoise
    /\ ret.paths[2] # ret.paths[1]
    /\ ret.paths[1] = <<ret.self.r0, ret.self.r0>>

ZeroVolVasicek ==
    ret.op = "VasicekModel.simulate" /\ ret.status = "ok" /\ ret.self.sigma = Zero

ZeroVolHoLee ==
    ret.op = "HoLeeModel.simulate" /\ ret.status = "ok" /\ ret.self.sigma = Zero

\* from row t to row t + 1 every path stays on its side of b and gets no
\* farther from b (rows counted from 1)
TowardB(t) ==
    \A j \in 1..ArgPaths :
        LET b == ret.self.b
            d0 == RSub(ret.paths[t][j], b)
            d1 == RSub(ret.paths[t + 1][j], b)
        IN  /\ RLeq(RAbs(d1), RAbs(d0))
            /\ RLeq(Zero, RMul(d0, d1))

\* C4 as stated: with sigma = 0, for every a, b, r0 and dt, each Vasicek path
\* moves monotonically toward b: |r[t] - b| never grows from one row to the
\* next and r[t] never crosses b.  (Stated here for positive a and dt only,
\* the values simulate is meant for: the claim fails already on those.)
C4_AsStated ==
    (ZeroVolVasicek /\ Positive(ArgDt) /\ Positive(ret.self.a))
        => \A t \in 1..ret.n_steps : TowardB(t)

\* C4 amended: the same, for dt > 0 and 0 <= a * dt <= 1.
C4_Monotone ==
    (/\ ZeroVolVasicek
     /\ Positive(ArgDt)
     /\ RLeq(Zero, RMul(ret.self.a, ArgDt))
     /\ RLeq(RMul(ret.self.a, ArgDt), <<1, 1>>))
        => \A t \in 1..ret.n_steps : TowardB(t)

\* C4 witness: a zero-volatility run of four steps with 0 < a * dt < 1 that
\* starts off b and comes strictly closer at every step
C4_Witness ==
    /\ ZeroVolVasicek /\ Positive(ArgDt) /\ ret.n_steps = 4
    /\ Positive(RMul(ret.self.a, ArgDt))
    /\ RLess(RMul(ret.self.a, ArgDt), <<1, 1>>)
    /\ ret.self.r0 # ret.self.b
    /\ \A t \in 1..ret.n_steps :
          RLess(RAbs(RSub(ret.paths[t + 1][1], ret.self.b)),
                RAbs(RSub(ret.paths[t][1], ret.self.b)))

\* row k (from 0) of every column is r0 + theta * (k * dt)
OnRamp ==
    \A k \in 0..ret.n_steps : \A j \in 1..ArgPaths :
        ret.paths[k + 1][j]
            = RAdd(ret.self.r0, RMul(ret.self.theta, RMul(<<k, 1>>, ArgDt)))

\* C5 as stated: with sigma = 0 every Ho-Lee path is the linear ramp, row k
\* being r0 + theta * (k * dt) for k in 0..n_steps, whatever was drawn.
C5_AsStated == ZeroVolHoLee => OnRamp

\* C5 amended: the same, for dt > 0.
C5_Ramp == (ZeroVolHoLee /\ Positive(ArgDt)) => OnRamp

\* C5 witness: a zero-volatility run of four steps and two paths with a
\* nonzero drift and nonzero increments drawn
C5_Witness ==
    /\ ZeroVolHoLee /\ Positive(ArgDt) /\ ret.n_steps = 4 /\ ArgPaths = 2
    /\ ret.self.theta # Zero /\ SomeNoise
    /\ ret.paths[5][2] = RAdd(ret.self.r0, ret.self.theta)

\* the last call was a simulate call with T <= 0 or dt <= 0
BadHorizon == IsSim /\ (RLeq(ArgT, Zero) \/ RLeq(ArgDt, Zero))

\* C6 as stated: a simulate call with T <= 0 or dt <= 0 raises nothing and
\* returns a matrix that is empty or has a single row.
C6_AsStated == BadHorizon => (ret.status = "ok" /\ Len(ret.paths) <= 1)

\* C6 amended: a simulate call with T <= 0 or dt <= 0 is not validated: it
\* raises ZeroDivisionError when dt = 0, ValueError when T/dt cut toward zero
\* is -2 or less, IndexError when it is -1, and otherwise returns a matrix of
\* that count plus one rows (a single row when the count is 0).
C6_Degenerate ==
    BadHorizon =>
        IF ArgDt = Zero THEN ret.status = "ZeroDivisionError"
        ELSE LET n == Trunc(RDiv(ArgT, ArgDt))
             IN  /\ n <= -2 => ret.status = "ValueError"
                 /\ n = -1 => ret.status = "IndexError"
                 /\ n >= 0 => /\ ret.status = "ok"
                              /\ Len(ret.paths) = n + 1
                              /\ \A i \in DOMAIN ret.paths : Len(ret.paths[i]) = ArgPaths

\* C6 witness: a call with T < 0 < dt and -1 < T/dt < 0 that returned the
\* single row of r0
C6_Witness ==
    /\ BadHorizon /\ ret.status = "ok" /\ Len(ret.paths) = 1
    /\ RLess(ArgT, Zero) /\ Positive(ArgDt) /\ ~IsWhole(RDiv(ArgT, ArgDt))
    /\ \A j \in 1..ArgPaths : ret.paths[1][j] = ret.self.r0

ResidualOps == {"vasicek_calibration", "holee_calibration"}

\* the model's expected change at transition i of the last residual call
ExpectedChange(i) ==
    IF ret.op = "vasicek_calibration"
    THEN RMul(RMul(ret.args[1][1], RSub(ret.args[1][2], ret.r[i])), ret.args[2])
    ELSE RMul(ret.args[1][1], ret.args[2])

\* sigma of the last residual call's parameter vector
ResidualSigma ==
    IF ret.op = "vasicek_calibration" THEN ret.args[1][3] ELSE ret.args[1][2]

\* there are len(r) - 1 residuals, and residual i times (sigma + 1e-6) is
\* r[i+1] - r[i] - expected_change_i
ResidualsAsSpecified ==
    /\ Len(ret.residuals) = Len(ret.r) - 1
    /\ \A i \in DOMAIN ret.residuals :
          RMul(ret.residuals[i], RAdd(ResidualSigma, <<1, 1000000>>))
              = RSub(RSub(ret.r[i + 1], ret.r[i]), ExpectedChange(i))

\* C7 as stated: for every series r and parameter vector, both residual
\* functions return exactly len(r) - 1 residuals, residual i being
\* (r[i+1] - r[i] - expected_change_i) / (sigma + 1e-6).
C7_AsStated == ret.op \in ResidualOps => ResidualsAsSpecified

\* C7 amended: the same, for every series r of at least one observation (an
\* empty series gets no residuals, not len(r) - 1 = -1 of them).
C7_Residuals ==
    /\ (ret.op \in ResidualOps /\ Len(ret.r) >= 1) => ResidualsAsSpecified
    /\ (ret.op \in ResidualOps /\ Len(ret.r) = 0) => ret.residuals = <<>>

\* C7 witness: a Vasicek residual call on three observations with nonzero
\* sigma that returned two different nonzero residuals
C7_Witness ==
    /\ ret.op = "vasicek_calibration" /\ Len(ret.r) = 3 /\ Len(ret.residuals) = 2
    /\ ret.args[1][3] # Zero
    /\ ret.residuals[1] # Zero /\ ret.residuals[2] # Zero
    /\ ret.residuals[1] # ret.residuals[2]

\* the series of the last call is constant (and not empty)
ConstantSeries ==
    Len(ret.r) >= 1 /\ \A i \in DOMAIN ret.r : ret.r[i] = ret.r[1]

\* C8: calibrate_vasicek on a constant series of value x starts from
\* (a = 0.1, b = x, sigma = 0.01), where every residual is zero, and returns
\* a vector with b = x, under which the expected change a * (b - r) * dt is
\* zero at every transition for the fitted a and for any other a.
C8_ConstantSeries ==
    (ret.op = "calibrate_vasicek" /\ ConstantSeries)
        => /\ ret.status = "ok"
           /\ ret.x0 = <<<<1, 10>>, ret.r[1], <<1, 100>>>>
           /\ \A i \in DOMAIN ret.residuals : ret.residuals[i] = Zero
           /\ Len(ret.residuals) = Len(ret.r) - 1
           /\ ret.x[2] = ret.r[1]
           /\ \A a \in {ret.x[1], <<-1, 1>>, <<1, 2>>, <<3, 1>>} :
                 \A i \in 1..(Len(ret.r) - 1) :
                    RMul(RMul(a, RSub(ret.x[2], ret.r[i])), ret.args[1]) = Zero

\* C8 witness: a completed calibration on a constant series of three
\* observations
C8_Witness ==
    /\ ret.op = "calibrate_vasicek" /\ ConstantSeries /\ Len(ret.r) = 3
    /\ ret.status = "ok" /\ ret.x[2] = ret.r[1]

\* the drift the recurrence adds to the rate r of the last simulate call
Drift(r) ==
    IF ret.op = "VasicekModel.simulate"
    THEN RMul(RMul(ret.self.a, RSub(ret.self.b, r)), ArgDt)
    ELSE RMul(ret.self.theta, ArgDt)

\* C9: in a completed simulate call dW has n_steps rows of n_paths
\* increments, rows 0, 1, ..., n_steps are assigned once each in that order,
\* and r[t+1][j] = r[t][j] + D + sigma * dW[t][j] for every step t and path
\* j, with D = a * (b - r[t][j]) * dt (Vasicek) or theta * dt (Ho-Lee): so
\* column j is determined by r0 and column j of dW alone.
C9_Recurrence ==
    (IsSim /\ ret.status = "ok")
        => /\ Len(ret.dW) = ret.n_steps
           /\ \A t \in DOMAIN ret.dW : Len(ret.dW[t]) = ArgPaths
           /\ ret.writes = [k \in 1..(ret.n_steps + 1) |-> k - 1]
           /\ \A t \in 1..ret.n_steps : \A j \in 1..ArgPaths :
                 ret.paths[t + 1][j]
                     = RAdd(RAdd(ret.paths[t][j], Drift(ret.paths[t][j])),
                            RMul(ret.self.sigma, ret.dW[t][j]))

\* C9 witness: a noisy Vasicek run of several steps whose two paths drew
\* different increments and ended apart
C9_Witness ==
    /\ ret.op = "VasicekModel.simulate" /\ ret.status = "ok"
    /\ ret.n_steps >= 2 /\ ArgPaths = 2 /\ ret.self.sigma # Zero
    /\ \E t \in DOMAIN ret.dW : ret.dW[t][1] # ret.dW[t][2]
    /\ ret.paths[ret.n_steps + 1][1] # ret.paths[ret.n_steps + 1][2]

CalOps == {"vasicek_calibration", "holee_calibration",
           "calibrate_vasicek", "calibrate_holee"}

\* this step is a simulate call / a call of a calibration function
SimStep == IsSim' /\ (ret' # ret \/ replayed' # "no")

CalStep == ret'.op \in CalOps /\ ret' # ret

\* no step changes an object's fields or a rate series
Frame == vasicek' = vasicek /\ holee' = holee /\ rate_data' = rate_data

\* the generator after one bulk draw of n_steps x n_paths normals
Advanced ==
    /\ ret'.normal_calls = 1
    /\ rng' = [seed |-> rng.seed, pos |-> rng.pos + ret'.n_steps * ret'.args[3]]

\* C10 as stated: no call changes an object's fields or the rate series;
\* every simulate call advances the generator exactly once, by one bulk draw
\* of n_steps x n_paths normals; no calibration call touches the generator.
C10_AsStated ==
    [][Frame /\ (SimStep => Advanced) /\ (CalStep => rng' = rng)]_vars

\* C10 amended: the same, except that only a simulate call that returns
\* advances the generator; one that raises does so before the draw and
\* leaves the generator as it was.
C10_Frame ==
    [][/\ Frame
       /\ (SimStep /\ ret'.status = "ok") => Advanced
       /\ (SimStep /\ ret'.status # "ok") => (rng' = rng /\ ret'.normal_calls = 0)
       /\ CalStep => rng' = rng]_vars

\* C10 witness: after a completed two-path simulate call of several steps
\* the generator stands n_steps * n_paths draws further and the object is
\* still the one the call was made on
C10_Witness ==
    /\ IsSim /\ ret.status = "ok" /\ ret.n_steps >= 2 /\ ArgPaths = 2
    /\ ret.normal_calls = 1
    /\ rng = [seed |-> ret.rng_before.seed,
              pos |-> ret.rng_before.pos + ret.n_steps * ArgPaths]
    /\ ret.self \in (vasicek \cup holee)

====
